---- MODULE Spec2Model ----
(***************************************************************************)
(* Single-elimination bracket engine of create-basket:                     *)
(*   generateBracket / seedTeams   (seeding and bracket topology)          *)
(*   propagateWinner / propagateAutoAdvances / settlePassChains            *)
(*                                 (winner propagation and cascade)        *)
(*   App                           (entrant list, main and consolation     *)
(*                                  brackets, schedule)                    *)
(* The state is the application's: the entrant list, the main bracket's    *)
(* match snapshot, the consolation bracket's snapshot and the scheduled    *)
(* games.  lastOp names the handler that ran last and edits counts the     *)
(* entrants added or removed so far.                                       *)
(***************************************************************************)
EXTENDS Integers, Sequences, FiniteSets, TLC

VARIABLES teams, matches, lastOp, consolationMatches, scheduled, edits

vars == <<teams, matches, lastOp, consolationMatches, scheduled, edits>>

----------------------------------------------------------------------------
(* Bounds of the model *)

\* largest entrant list handed to generateBracket in the seeding specification
MaxSeedTeams == 8

\* largest entrant list in the propagation specification
MaxTeams == 6

\* passes allowed to each repeat-until-stable loop before the model gives up
MaxPasses == 12

\* largest entrant list of the wide seeding specification, whose lists have
\* their priority entrants first
MaxWideTeams == 9

\* largest entrant list loaded in the application specification
MaxAppTeams == 4

\* most priority entrants in a list loaded in the application specification
MaxAppPriority == 1

\* entrants added or removed, in all, in one run of the application
MaxEdits == 1

\* games held in the schedule at a time
MaxScheduled == 1

\* entrants of the tournaments of the consolation specification
ConsolationTeams == 12

\* most priority entrants in a tournament of the consolation specification
MaxConsolationPriority == 1

\* last round of the main bracket played in the consolation specification
MaxPlayedRound == 1

\* largest entrant list of the naming specification, whose entrants take
\* their names from NamePool
MaxNameTeams == 3

\* largest entrant list of the specification of the seeding loops
MaxLoopTeams == 7

----------------------------------------------------------------------------
(* Values *)

PASS_ID == "__PASS__"

\* the value of an optional field that is not set
Undefined == "undefined"

isPass(id) == id = PASS_ID

\* JavaScript truthiness of an optional id
Truthy(id) == id # Undefined

TeamId(i) == "t" \o ToString(i)

\* the element of a one-element set: a value that is computed once and then
\* named, as a const of the code is, is bound through the set holding it
the(S) == CHOOSE v \in S : TRUE

\* seeded[i] when no team sits in slot i
NoTeam == [id |-> Undefined, name |-> <<>>, priority |-> FALSE]

----------------------------------------------------------------------------
(* Names *)

Upper == <<"A", "B", "C", "D", "E", "F", "G", "H", "I", "J", "K", "L", "M",
           "N", "O", "P", "Q", "R", "S", "T", "U", "V", "W", "X", "Y", "Z">>
Lower == <<"a", "b", "c", "d", "e", "f", "g", "h", "i", "j", "k", "l", "m",
           "n", "o", "p", "q", "r", "s", "t", "u", "v", "w", "x", "y", "z">>
Digits == <<"0", "1", "2", "3", "4", "5", "6", "7", "8", "9">>

IndexIn(seq, c) == CHOOSE i \in 1..Len(seq) : seq[i] = c

IsUpper(c) == \E i \in 1..Len(Upper) : Upper[i] = c
IsLower(c) == \E i \in 1..Len(Lower) : Lower[i] = c
IsDigit(c) == \E i \in 1..Len(Digits) : Digits[i] = c
IsAlnum(c) == IsUpper(c) \/ IsLower(c) \/ IsDigit(c)

toLowerCase(c) == IF IsUpper(c) THEN Lower[IndexIn(Upper, c)] ELSE c

\* value.replace(/\(.*?\)/g, ''): drop every "(" up to the nearest ")" after it
RECURSIVE stripParens(_)
stripParens(s) ==
  IF s = <<>> THEN <<>>
  ELSE IF Head(s) = "(" /\ \E j \in 2..Len(s) : s[j] = ")"
       THEN LET j == CHOOSE j \in 2..Len(s) :
                       s[j] = ")" /\ \A k \in 2..(j - 1) : s[k] # ")"
            IN  the({ stripParens(rest) : rest \in {SubSeq(s, j + 1, Len(s))} })
       ELSE the({ <<Head(s)>> \o stripParens(rest) : rest \in {Tail(s)} })

normalizeName(value) ==
  LET noParens == stripParens(value)
      alnum == SelectSeq(noParens, IsAlnum)
  IN  [i \in 1..Len(alnum) |-> toLowerCase(alnum[i])]

\* rank of a character in the collation order: space, punctuation, digits, letters
CharRank(c) ==
  IF c = " " THEN 0
  ELSE IF c = "(" THEN 1
  ELSE IF c = ")" THEN 2
  ELSE IF IsDigit(c) THEN 10 + IndexIn(Digits, c)
  ELSE IF IsLower(c) THEN 100 + IndexIn(Lower, c)
  ELSE IF IsUpper(c) THEN 100 + IndexIn(Upper, c)
  ELSE 3

\* a.localeCompare(b): -1, 0 or 1; letters compare case-blind first,
\* and lower case sorts before upper case when nothing else differs
RECURSIVE comparePrimary(_, _)
comparePrimary(a, b) ==
  IF a = <<>> /\ b = <<>> THEN 0
  ELSE IF a = <<>> THEN -1
  ELSE IF b = <<>> THEN 1
  ELSE IF CharRank(Head(a)) < CharRank(Head(b)) THEN -1
  ELSE IF CharRank(Head(a)) > CharRank(Head(b)) THEN 1
  ELSE the({ comparePrimary(rest[1], rest[2]) : rest \in {<<Tail(a), Tail(b)>>} })

RECURSIVE compareCase(_, _)
compareCase(a, b) ==
  IF a = <<>> \/ b = <<>> THEN 0
  ELSE IF IsLower(Head(a)) /\ IsUpper(Head(b)) THEN -1
  ELSE IF IsUpper(Head(a)) /\ IsLower(Head(b)) THEN 1
  ELSE the({ compareCase(rest[1], rest[2]) : rest \in {<<Tail(a), Tail(b)>>} })

localeCompare(a, b) ==
  IF comparePrimary(a, b) # 0 THEN comparePrimary(a, b) ELSE compareCase(a, b)

----------------------------------------------------------------------------
(* Arithmetic helpers *)

RECURSIVE Pow2(_)
Pow2(n) == IF n = 0 THEN 1 ELSE 2 * Pow2(n - 1)

\* Math.ceil(Math.log2(value)) for value >= 1
RECURSIVE CeilLog2(_)
CeilLog2(value) == IF value <= 1 THEN 0 ELSE 1 + CeilLog2((value + 1) \div 2)

\* a size computation that rounds value + 1 up instead of value
nextPowerOfTwoAbove(value) == IF value <= 1 THEN 1 ELSE Pow2(CeilLog2(value + 1))

nextPowerOfTwo(value) == IF value <= 1 THEN 1 ELSE Pow2(CeilLog2(value))

----------------------------------------------------------------------------
(* Seeding: seedTeams and its passes.  A layout `seeded` maps the slots    *)
(* 0 .. bracketSize-1 to a team or to NoTeam.                              *)

\* seeded.length
SizeOf(seeded) == Cardinality(DOMAIN seeded)

\* seeded[idx], where an index outside the array reads as undefined
At(seeded, idx) == IF idx \in DOMAIN seeded THEN seeded[idx] ELSE NoTeam

\* seeded[idx] = team, where an index outside the array leaves the slots alone
Put(seeded, idx, team) ==
  IF idx \in DOMAIN seeded THEN [seeded EXCEPT ![idx] = team] ELSE seeded

\* index that a one-element chunk does not have
NoIdx == -1

\* chunk(positions, 2): the round-1 pairs <<a, b>>, in slot order
chunk(bracketSize) ==
  [p \in 1..((bracketSize + 1) \div 2) |->
     <<2 * (p - 1), IF 2 * (p - 1) + 1 < bracketSize THEN 2 * (p - 1) + 1 ELSE NoIdx>>]

RECURSIVE interleave(_, _, _)
interleave(order, mirrored, size) ==
  IF order = <<>> THEN <<>>
  ELSE <<Head(order), Head(mirrored)>> \o interleave(Tail(order), Tail(mirrored), size)

RECURSIVE seedOrderFrom(_, _)
seedOrderFrom(order0, size) ==
  the({ IF Len(order) >= size THEN order
        ELSE LET mirrorBase == Len(order) * 2 + 1
                 mirrored == [i \in 1..Len(order) |-> mirrorBase - order[i]]
             IN  the({ seedOrderFrom(SubSeq(next, 1, IF Len(next) < size THEN Len(next) ELSE size),
                                     size)
                       : next \in {interleave(order, mirrored, size)} })
        : order \in {order0} })

\* buildSeedOrder(size): slot numbers in standard seeding order
buildSeedOrder(size) ==
  LET order == seedOrderFrom(<<1>>, size)
  IN  [i \in 1..size |-> order[i] - 1]

baseKey(team) == IF team = NoTeam THEN <<>> ELSE normalizeName(team.name)

\* the slot sharing a round-1 pair with `slot`
opponentIdxOf(slot, bracketSize) ==
  LET other == IF slot % 2 = 0 THEN slot + 1 ELSE slot - 1
  IN  IF other < bracketSize THEN other ELSE NoIdx

slotConflicts(seeded, team, slot) ==
  LET opponent == At(seeded, opponentIdxOf(slot, SizeOf(seeded)))
  IN  [priorityConflict |-> opponent.priority,
       sameSchoolConflict |-> opponent # NoTeam /\ baseKey(opponent) = baseKey(team)]

\* a[diff] - b[diff] < 0 at the first index where the scores differ
RECURSIVE scoreLess(_, _)
scoreLess(a, b) ==
  IF a = <<>> THEN FALSE
  ELSE IF Head(a) # Head(b) THEN Head(a) < Head(b)
  ELSE scoreLess(Tail(a), Tail(b))

compositeScore(seeded, team, slot, mode) ==
  the({ IF mode = "priority"
        THEN << IF conflicts.priorityConflict THEN 4 ELSE 0,
                IF conflicts.sameSchoolConflict THEN 2 ELSE 0,
                IF opponent # NoTeam THEN 0 ELSE 3,
                IF opponent.priority THEN 2 ELSE 0,
                \* seedBias
                the({ IF \E i \in 1..Len(seedOrder) : seedOrder[i] = slot
                      THEN IndexIn(seedOrder, slot) - 1
                      ELSE Len(seedOrder)
                      : seedOrder \in {buildSeedOrder(SizeOf(seeded))} }) >>
        ELSE << IF conflicts.sameSchoolConflict THEN 3 ELSE 0,
                IF opponent # NoTeam THEN 0 ELSE 3,
                IF opponent.priority THEN 0 ELSE 1 >>
        : conflicts \in {slotConflicts(seeded, team, slot)},
          opponent \in {At(seeded, opponentIdxOf(slot, SizeOf(seeded)))} })

\* the comparator of rankSlots' sort: composite score, then lowest slot
rankBefore(seeded, team, mode, s1, s2) ==
  \E a \in {compositeScore(seeded, team, s1, mode)} :
    \E b \in {compositeScore(seeded, team, s2, mode)} :
      IF a # b THEN scoreLess(a, b) ELSE s1 < s2

\* rankSlots(team, mode).find(pred): the first open slot, in ranked order,
\* that satisfies pred; NoIdx when there is none
firstRanked(seeded, team, mode, pred(_)) ==
  the({ IF ok = {} THEN NoIdx
        ELSE CHOOSE s \in ok : \A o \in ok : o = s \/ rankBefore(seeded, team, mode, s, o)
        : ok \in {{idx \in {open \in DOMAIN seeded : seeded[open] = NoTeam} : pred(idx)}} })

placeTeam(seeded0, team, mode) ==
  the({ LET noPrio(s) == ~slotConflicts(seeded, team, s).priorityConflict
            noSame(s) == ~slotConflicts(seeded, team, s).sameSchoolConflict
            perfectP(s) == noPrio(s) /\ noSame(s)
            any(s) == TRUE
        \* the first slot found by a search, or by the next one when it found none
        IN  the({ Put(seeded, slot, team) : slot \in {
              the({ IF perfect # NoIdx THEN perfect ELSE
                the({ IF noPriority # NoIdx THEN noPriority ELSE
                  the({ IF noSameSchool # NoIdx THEN noSameSchool
                        ELSE firstRanked(seeded, team, mode, any)
                        : noSameSchool \in {firstRanked(seeded, team, mode, noSame)} })
                      : noPriority \in {IF mode = "priority"
                                        THEN firstRanked(seeded, team, mode, noPrio)
                                        ELSE NoIdx} })
                    : perfect \in {firstRanked(seeded, team, mode, perfectP)} }) } })
        : seeded \in {seeded0} })

RECURSIVE placeAll(_, _, _)
placeAll(seeded, list, mode) ==
  IF list = <<>> THEN seeded
  ELSE placeAll(placeTeam(seeded, Head(list), mode), Tail(list), mode)

\* greedy placement: priorities first, then the others
greedyPlacement(sortedTeams, bracketSize) ==
  LET empty == [idx \in 0..(bracketSize - 1) |-> NoTeam]
      isPrio(t) == t.priority
      notPrio(t) == ~t.priority
      priorityTeams == SelectSeq(sortedTeams, isPrio)
      others == SelectSeq(sortedTeams, notPrio)
  IN  placeAll(placeAll(empty, priorityTeams, "priority"), others, "nonPriority")

\* pairs.find(pred on the two occupants): index into the pairs, 0 when none
findDonor(seeded, pred(_, _)) ==
  LET pairs == chunk(SizeOf(seeded))
      ok == {p \in 1..Len(pairs) : pred(At(seeded, pairs[p][1]), At(seeded, pairs[p][2]))}
  IN  IF ok = {} THEN 0 ELSE CHOOSE p \in ok : \A q \in ok : p <= q

\* the donor pass after greedy placement, for one pair
donorStep(seeded0, pair) ==
  the({ (
    LET pairs == chunk(SizeOf(seeded))
        aIdx == pair[1]
        bIdx == pair[2]
        a == At(seeded, aIdx)
        b == At(seeded, bIdx)
        targetPriority == IF a.priority THEN a ELSE IF b.priority THEN b ELSE NoTeam
        targetEmptyIdx == IF a = NoTeam THEN aIdx ELSE IF b = NoTeam THEN bIdx ELSE NoIdx
        twoNonPriority(x, y) == x # NoTeam /\ y # NoTeam /\ ~x.priority /\ ~y.priority
        nonPriorityWithBye(t, u) == t # NoTeam /\ ~t.priority /\ u = NoTeam
        eitherWithBye(x, y) == nonPriorityWithBye(x, y) \/ nonPriorityWithBye(y, x)
        priorityWithEmpty(x, y) ==
          (x.priority # y.priority) /\ ((x = NoTeam /\ y # NoTeam) \/ (y = NoTeam /\ x # NoTeam))
        donor == findDonor(seeded, twoNonPriority)
        donorBye == findDonor(seeded, eitherWithBye)
        donorPriority == findDonor(seeded, priorityWithEmpty)
    IN  IF targetPriority = NoTeam \/ targetEmptyIdx = NoIdx THEN seeded
        ELSE IF donor # 0
          THEN LET dA == pairs[donor][1]
               IN  Put(Put(seeded, targetEmptyIdx, At(seeded, dA)), dA, NoTeam)
        ELSE IF donorBye # 0
          THEN LET dA == pairs[donorBye][1]
                   dB == pairs[donorBye][2]
                   donorIdx == IF At(seeded, dA) # NoTeam /\ ~At(seeded, dA).priority
                               THEN dA ELSE dB
               IN  Put(Put(seeded, targetEmptyIdx, At(seeded, donorIdx)), donorIdx, NoTeam)
        ELSE IF donorPriority # 0
          THEN LET dA == pairs[donorPriority][1]
                   dB == pairs[donorPriority][2]
                   donorTeam == IF At(seeded, dA).priority THEN At(seeded, dA) ELSE At(seeded, dB)
                   donorIdx == IF donorTeam = At(seeded, dA) THEN dA ELSE dB
               IN  Put(Put(seeded, targetEmptyIdx, donorTeam), donorIdx, NoTeam)
        ELSE seeded
    ) : seeded \in {seeded0} })

RECURSIVE donorPass(_, _)
donorPass(seeded0, p) ==
  the({ (
    IF p > Len(chunk(SizeOf(seeded))) THEN seeded
    ELSE donorPass(donorStep(seeded, chunk(SizeOf(seeded))[p]), p + 1)
    ) : seeded \in {seeded0} })

\* the priority-vs-bye pairs of a layout, in pair order
priorityByePairs(seeded0) ==
  the({ (
    LET pairs == chunk(SizeOf(seeded))
        entryOf(pair) ==
          IF At(seeded, pair[1]).priority /\ At(seeded, pair[2]) = NoTeam
            THEN [priorityIdx |-> pair[1], emptyIdx |-> pair[2]]
          ELSE IF At(seeded, pair[2]).priority /\ At(seeded, pair[1]) = NoTeam
            THEN [priorityIdx |-> pair[2], emptyIdx |-> pair[1]]
          ELSE [priorityIdx |-> NoIdx, emptyIdx |-> NoIdx]
        isEntry(e) == e.priorityIdx # NoIdx
    IN  SelectSeq([p \in 1..Len(pairs) |-> entryOf(pairs[p])], isEntry)
    ) : seeded \in {seeded0} })

\* moveNonPriorityTo(emptyIdx): the layout after the move, changed or not
moveNonPriorityTo(seeded0, emptyIdx) ==
  the({ (
    LET pairs == chunk(SizeOf(seeded))
        noPriorityPair(a, b) == ~a.priority /\ ~b.priority /\ (a # NoTeam \/ b # NoTeam)
        donor == findDonor(seeded, noPriorityPair)
    IN  IF donor = 0 THEN [seeded |-> seeded, filled |-> FALSE]
        ELSE LET dA == pairs[donor][1]
                 dB == pairs[donor][2]
                 donorIdx == IF At(seeded, dA) # NoTeam THEN dA ELSE dB
                 donorTeam == At(seeded, donorIdx)
             IN  IF donorTeam = NoTeam THEN [seeded |-> seeded, filled |-> FALSE]
                 ELSE [seeded |-> Put(Put(seeded, emptyIdx, donorTeam), donorIdx, NoTeam),
                       filled |-> TRUE]
    ) : seeded \in {seeded0} })

\* one entry of resolvePriorityByes' forEach
resolveEntry(seeded0, entry) ==
  the({ (
    IF At(seeded, entry.emptyIdx) # NoTeam THEN [seeded |-> seeded, changed |-> FALSE]
    ELSE LET moved == moveNonPriorityTo(seeded, entry.emptyIdx)
             isOther(e) == e.priorityIdx # entry.priorityIdx
             others == SelectSeq(priorityByePairs(seeded), isOther)
         IN  IF moved.filled THEN [seeded |-> moved.seeded, changed |-> TRUE]
             ELSE IF others = <<>> THEN [seeded |-> seeded, changed |-> FALSE]
             ELSE LET other == Head(others)
                  IN  [seeded |-> Put(Put(seeded, entry.emptyIdx, At(seeded, other.priorityIdx)),
                                      other.priorityIdx, NoTeam),
                       changed |-> TRUE]
    ) : seeded \in {seeded0} })

RECURSIVE resolveEntries(_, _, _)
resolveEntries(seeded0, entries0, changed0) ==
  the({ IF entries = <<>> THEN [seeded |-> seeded, changed |-> changed]
        ELSE the({ resolveEntries(r.seeded, Tail(entries), changed \/ r.changed)
                   : r \in {resolveEntry(seeded, Head(entries))} })
        : seeded \in {seeded0}, entries \in {entries0}, changed \in {changed0} })

resolvePriorityByes(seeded0) ==
  the({ resolveEntries(seeded, priorityByePairs(seeded), FALSE) : seeded \in {seeded0} })

\* the non-priority entrants that sit alone in their pair, in pair order
singlesOf(seeded0) ==
  the({ (
    LET pairs == chunk(SizeOf(seeded))
        entryOf(pair) ==
          LET a == At(seeded, pair[1])
              b == At(seeded, pair[2])
          IN  IF a # NoTeam /\ b = NoTeam /\ ~a.priority
                THEN [filledIdx |-> pair[1], emptyIdx |-> pair[2]]
              ELSE IF b # NoTeam /\ a = NoTeam /\ ~b.priority
                THEN [filledIdx |-> pair[2], emptyIdx |-> pair[1]]
              ELSE [filledIdx |-> NoIdx, emptyIdx |-> NoIdx]
        isEntry(e) == e.filledIdx # NoIdx
    IN  SelectSeq([p \in 1..Len(pairs) |-> entryOf(pairs[p])], isEntry)
    ) : seeded \in {seeded0} })

RECURSIVE collapseSingles(_, _, _)
collapseSingles(seeded0, singles0, changed) ==
  the({ (
    IF Len(singles) < 2 THEN [seeded |-> seeded, changed |-> changed]
    ELSE LET first == singles[1]
             second == singles[2]
             teamToMove == At(seeded, second.filledIdx)
             rest == SubSeq(singles, 3, Len(singles))
         IN  IF teamToMove = NoTeam THEN collapseSingles(seeded, rest, changed)
             ELSE collapseSingles(
                    Put(Put(seeded, first.emptyIdx, teamToMove), second.filledIdx, NoTeam),
                    rest, TRUE)
    ) : seeded \in {seeded0}, singles \in {singles0} })

collapseNonPriorityByes(seeded0) ==
  the({ collapseSingles(seeded, singlesOf(seeded), FALSE) : seeded \in {seeded0} })

\* distributeByes, for one pair
distributeStep(seeded0, pair) ==
  the({ (
    LET pairs == chunk(SizeOf(seeded))
        bothFilled(a, b) == a # NoTeam /\ b # NoTeam
        donor == findDonor(seeded, bothFilled)
    IN  IF At(seeded, pair[1]) # NoTeam \/ At(seeded, pair[2]) # NoTeam THEN seeded
        ELSE IF donor = 0 THEN seeded
        ELSE LET donorIdx == pairs[donor][1]
             IN  Put(Put(seeded, donorIdx, NoTeam), pair[1], At(seeded, donorIdx))
    ) : seeded \in {seeded0} })

RECURSIVE distributeFrom(_, _)
distributeFrom(seeded0, p) ==
  the({ (
    IF p > Len(chunk(SizeOf(seeded))) THEN seeded
    ELSE distributeFrom(distributeStep(seeded, chunk(SizeOf(seeded))[p]), p + 1)
    ) : seeded \in {seeded0} })

distributeByes(seeded) == distributeFrom(seeded, 1)

\* swapPriorityByes: the first two priority-vs-bye pairs get each other's entrant
swapPriorityByes(seeded0) ==
  the({ the({ IF Len(pb) < 2 THEN [seeded |-> seeded, changed |-> FALSE]
              ELSE LET team1 == At(seeded, pb[1].priorityIdx)
                       team2 == At(seeded, pb[2].priorityIdx)
                   IN  [seeded |-> Put(Put(seeded, pb[1].emptyIdx, team2), pb[2].emptyIdx, team1),
                        changed |-> TRUE]
              : pb \in {priorityByePairs(seeded)} })
        : seeded \in {seeded0} })

pairScore(seeded, idxA, idxB) ==
  LET a == At(seeded, idxA)
      b == At(seeded, idxB)
  IN  [priorityConflict |-> a.priority /\ b.priority,
       sameSchoolConflict |-> a # NoTeam /\ b # NoTeam /\ baseKey(a) = baseKey(b),
       priorityWithBye |-> (a.priority /\ b = NoTeam) \/ (b.priority /\ a = NoTeam)]

\* a total that leaves the priority-vs-bye pairs out of the score
totalScoreNoByes(seeded0) ==
  the({ (
    LET pairs == chunk(SizeOf(seeded))
        score(p) == pairScore(seeded, pairs[p][1], pairs[p][2])
    IN  << Cardinality({p \in 1..Len(pairs) : score(p).priorityConflict}),
           Cardinality({p \in 1..Len(pairs) : score(p).sameSchoolConflict}),
           0 >>
    ) : seeded \in {seeded0} })

totalScore(seeded0) ==
  the({ (
    LET pairs == chunk(SizeOf(seeded))
        score(p) == pairScore(seeded, pairs[p][1], pairs[p][2])
    IN  << Cardinality({p \in 1..Len(pairs) : score(p).priorityConflict}),
           Cardinality({p \in 1..Len(pairs) : score(p).sameSchoolConflict}),
           Cardinality({p \in 1..Len(pairs) : score(p).priorityWithBye}) >>
    ) : seeded \in {seeded0} })

\* a test that also accepts a swap leaving the totals as they are
improvedOrEqual(next, curr) ==
  \/ next[1] < curr[1]
  \/ (next[1] = curr[1] /\ next[2] < curr[2])
  \/ (next[1] = curr[1] /\ next[2] = curr[2] /\ next[3] <= curr[3])

\* improved: the test that keeps a swap
improved(next, curr) ==
  \/ next[1] < curr[1]
  \/ (next[1] = curr[1] /\ next[2] < curr[2])
  \/ (next[1] = curr[1] /\ next[2] = curr[2] /\ next[3] < curr[3])

swapSlots(seeded, idx1, idx2) ==
  [seeded EXCEPT ![idx1] = seeded[idx2], ![idx2] = seeded[idx1]]

\* tryImprovePairs: the first swap, in loop order, that is allowed and improves
tryImprovePairs(seeded0) ==
  the({ the({
    LET allowed(idx1, idx2) ==
          LET team1 == seeded[idx1]
              team2 == seeded[idx2]
              dest1Empty == team2 = NoTeam
              dest2Empty == team1 = NoTeam
          IN  /\ idx1 \div 2 < idx2 \div 2
              /\ ~(team1.priority /\ dest2Empty)
              /\ ~(team2.priority /\ dest1Empty)
        before(s, t) == s[1] < t[1] \/ (s[1] = t[1] /\ s[2] <= t[2])
    IN  the({ IF improving = {} THEN [seeded |-> seeded, changed |-> FALSE]
              ELSE LET sw == CHOOSE s \in improving : \A t \in improving : before(s, t)
                   IN  [seeded |-> swapSlots(seeded, sw[1], sw[2]), changed |-> TRUE]
              : improving \in {{sw \in (DOMAIN seeded) \X (DOMAIN seeded) :
                                  /\ allowed(sw[1], sw[2])
                                  /\ improved(totalScore(swapSlots(seeded, sw[1], sw[2])), curr)}} })
    : curr \in {totalScore(seeded)} })
  : seeded \in {seeded0} })

\* while (pass()) {}: repeat a pass until it reports no change
RECURSIVE resolveLoop(_, _)
resolveLoop(seeded, fuel) ==
  the({ IF fuel = 0 \/ ~r.changed THEN r.seeded ELSE resolveLoop(r.seeded, fuel - 1)
        : r \in {resolvePriorityByes(seeded)} })

RECURSIVE collapseLoop(_, _)
collapseLoop(seeded, fuel) ==
  the({ IF fuel = 0 \/ ~r.changed THEN r.seeded ELSE collapseLoop(r.seeded, fuel - 1)
        : r \in {collapseNonPriorityByes(seeded)} })

RECURSIVE swapLoop(_, _)
swapLoop(seeded, fuel) ==
  the({ IF fuel = 0 \/ ~r.changed THEN r.seeded ELSE swapLoop(r.seeded, fuel - 1)
        : r \in {swapPriorityByes(seeded)} })

RECURSIVE improveLoop(_, _)
improveLoop(seeded, fuel) ==
  the({ IF fuel = 0 \/ ~r.changed THEN r.seeded ELSE improveLoop(r.seeded, fuel - 1)
        : r \in {tryImprovePairs(seeded)} })

\* the layouts tryImprovePairs goes through: the one it starts from and the
\* one after each swap it keeps
RECURSIVE improveChain(_, _)
improveChain(seeded, fuel) ==
  the({ the({ IF fuel = 0 \/ ~r.changed THEN <<s>> ELSE <<s>> \o improveChain(r.seeded, fuel - 1)
              : r \in {tryImprovePairs(s)} })
        : s \in {seeded} })

\* the layout seedTeams holds after each of its loops
seedingStages(sortedTeams, bracketSize) ==
  the({ the({ the({ the({
    [placed |-> s0, resolved |-> s1, collapsed |-> s2, swapped |-> s4,
     chain |-> improveChain(s4, MaxPasses)]
    : s4 \in {swapLoop(distributeByes(s2), MaxPasses)} })
    : s2 \in {collapseLoop(s1, MaxPasses)} })
    : s1 \in {resolveLoop(s0, MaxPasses)} })
    : s0 \in {donorPass(greedyPlacement(sortedTeams, bracketSize), 1)} })

\* the passes of seedTeams, applied inside out in the order the code runs them:
\* greedy placement, donor pass, resolvePriorityByes, collapseNonPriorityByes,
\* distributeByes, swapPriorityByes, tryImprovePairs
seedTeams(sortedTeams, bracketSize) ==
  improveLoop(
    swapLoop(
      distributeByes(
        collapseLoop(
          resolveLoop(
            donorPass(greedyPlacement(sortedTeams, bracketSize), 1),
            MaxPasses),
          MaxPasses)),
      MaxPasses),
    MaxPasses)

\* stable insertion of a team into a list sorted priority first, then by name
RECURSIVE insertSorted(_, _)
insertSorted(sorted0, team) ==
  the({ (
    LET after(a, b) ==
          IF a.priority = b.priority THEN localeCompare(a.name, b.name) > 0
          ELSE b.priority
    IN  IF sorted = <<>> THEN <<team>>
        ELSE IF after(Head(sorted), team) THEN <<team>> \o sorted
        ELSE <<Head(sorted)>> \o insertSorted(Tail(sorted), team)
    ) : sorted \in {sorted0} })

RECURSIVE sortTeams(_)
sortTeams(list) ==
  IF list = <<>> THEN <<>>
  ELSE insertSorted(sortTeams(SubSeq(list, 1, Len(list) - 1)), list[Len(list)])

\* a filter that keeps every team
uniqueTeamsKeepAll(list) == list

\* the filter of generateBracket: first occurrence of each normalized name
uniqueTeams(list) ==
  LET firstOfKey(i) == \A j \in 1..(i - 1) : normalizeName(list[j].name) # normalizeName(list[i].name)
      keep == {i \in 1..Len(list) : firstOfKey(i)}
      RECURSIVE pick(_)
      pick(i) == IF i > Len(list) THEN <<>>
                 ELSE IF i \in keep THEN <<list[i]>> \o pick(i + 1) ELSE pick(i + 1)
  IN  pick(1)

\* the round-1 layout generateBracket seeds for an entrant list
seededTeams(list) ==
  the({ seedTeams(sortedTeams, nextPowerOfTwo(Len(sortedTeams)))
        : sortedTeams \in {sortTeams(uniqueTeams(list))} })

----------------------------------------------------------------------------
(* Matches.  A snapshot is the array of matches in creation order; the id  *)
(* of a match is its position in that array.                               *)

Match(id, round, slot, teamAId, teamBId, winnerId) ==
  [id |-> id, round |-> round, slot |-> slot,
   teamAId |-> teamAId, teamBId |-> teamBId, winnerId |-> winnerId]

\* matches.find(pred): index of the first match satisfying pred, 0 when none
findIndex(ms, pred(_)) ==
  LET ok == {i \in 1..Len(ms) : pred(ms[i])}
  IN  IF ok = {} THEN 0 ELSE CHOOSE i \in ok : \A j \in ok : i <= j

\* a lookup that falls back on the first match when the id is not found
findByIdOrFirst(ms, matchId) ==
  LET hasId(m) == m.id = matchId
  IN  IF findIndex(ms, hasId) # 0 THEN findIndex(ms, hasId)
      ELSE IF Len(ms) > 0 THEN 1 ELSE 0

findById(ms, matchId) ==
  LET hasId(m) == m.id = matchId
  IN  findIndex(ms, hasId)

findNextMatch(ms, round, slot) ==
  LET isNext(m) == m.round = round + 1 /\ m.slot = slot \div 2
  IN  findIndex(ms, isNext)

\* 'teamAId' for a feeder in an even slot, 'teamBId' for one in an odd slot
targetKeyOf(slot) == IF slot % 2 = 0 THEN "teamAId" ELSE "teamBId"

opponentKeyOf(targetKey) == IF targetKey = "teamAId" THEN "teamBId" ELSE "teamAId"

\* a cascade that stops at the parent instead of walking to the final
clearDownstreamOneLevel(ms0, i, clearSlot) ==
  the({ (
    LET next == findNextMatch(ms, ms[i].round, ms[i].slot)
        targetKey == targetKeyOf(ms[i].slot)
        slotCleared == IF clearSlot THEN [ms EXCEPT ![next][targetKey] = Undefined] ELSE ms
        winnerCleared == [slotCleared EXCEPT ![next].winnerId = Undefined]
    IN  IF next = 0 THEN ms ELSE winnerCleared
    ) : ms \in {ms0} })

RECURSIVE clearDownstream(_, _, _)
clearDownstream(ms0, i, clearSlot) ==
  the({ (
    LET next == findNextMatch(ms, ms[i].round, ms[i].slot)
        targetKey == targetKeyOf(ms[i].slot)
        slotCleared == IF clearSlot THEN [ms EXCEPT ![next][targetKey] = Undefined] ELSE ms
        winnerCleared == [slotCleared EXCEPT ![next].winnerId = Undefined]
    IN  IF next = 0 THEN ms ELSE clearDownstream(winnerCleared, next, TRUE)
    ) : ms \in {ms0} })

\* maybeAutoAdvance calls propagateWinner on `updated` and drops the copy it
\* returns, so the snapshot being built is left as it is
maybeAutoAdvance(updated, i) == updated

\* a clear that unsets the winner of every match of the round
clearBranchWholeRound(ms, i) ==
  IF ms[i].winnerId # Undefined
  THEN [ms |-> [k \in DOMAIN ms |->
                  IF ms[k].round = ms[i].round THEN [ms[k] EXCEPT !.winnerId = Undefined]
                  ELSE ms[k]],
        mutated |-> TRUE, toSweep |-> FALSE]
  ELSE [ms |-> ms, mutated |-> FALSE, toSweep |-> FALSE]

\* a clear that unsets the winner and leaves the later rounds as they are
clearBranchWinnerOnly(ms, i) ==
  IF ms[i].winnerId # Undefined
  THEN [ms |-> [ms EXCEPT ![i].winnerId = Undefined], mutated |-> TRUE, toSweep |-> FALSE]
  ELSE [ms |-> ms, mutated |-> FALSE, toSweep |-> FALSE]

\* clearing a winner: the snapshot built, whether it was mutated, and whether
\* the call got as far as the sweep
clearBranch(ms, i) ==
  LET next == findNextMatch(ms, ms[i].round, ms[i].slot)
      unset == [ms EXCEPT ![i].winnerId = Undefined]
  IN  IF ms[i].winnerId # Undefined
      THEN [ms |-> IF next # 0 THEN clearDownstream(unset, i, TRUE) ELSE unset,
            mutated |-> TRUE, toSweep |-> FALSE]
      ELSE [ms |-> ms, mutated |-> FALSE, toSweep |-> FALSE]

\* setting a winner, up to the sweep
setBranch(ms, i, winnerId, auto) ==
  the({
    LET u1 == [ms EXCEPT ![i].winnerId = winnerId]
        mutated1 == ms[i].winnerId # winnerId
        targetKey == targetKeyOf(ms[i].slot)
        previousValue == u1[next][targetKey]
        u2 == [u1 EXCEPT ![next][targetKey] = winnerId]
        mutated2 == mutated1 \/ previousValue # winnerId
        opponent == u2[next][opponentKeyOf(targetKey)]
        stale(u) == /\ Truthy(u[next].winnerId)
                    /\ u[next].winnerId # u[next].teamAId
                    /\ u[next].winnerId # u[next].teamBId
        selfMatch == ~auto /\ Truthy(opponent) /\ opponent = winnerId
        unsetNext(u) == clearDownstream([u EXCEPT ![next].winnerId = Undefined], next, FALSE)
    IN  IF next = 0 THEN [ms |-> u1, mutated |-> mutated1, toSweep |-> FALSE]
        ELSE the({ the({ [ms |-> maybeAutoAdvance(IF selfMatch THEN unsetNext(u4) ELSE u4, i),
                          mutated |-> mutated2 \/ stale(u3) \/ selfMatch,
                          toSweep |-> TRUE]
                         : u4 \in {IF stale(u3) THEN unsetNext(u3) ELSE u3} })
                   : u3 \in {IF previousValue # winnerId
                             THEN clearDownstream(u2, i, FALSE) ELSE u2} })
    : next \in {findNextMatch(ms, ms[i].round, ms[i].slot)} })

\* propagateWinner up to its sweep: the snapshot built so far, whether it was
\* mutated, and whether the call got as far as the sweep
propagateStep(ms0, matchId, winnerId, auto) ==
  the({ the({ IF i = 0 THEN [ms |-> ms, mutated |-> FALSE, toSweep |-> FALSE]
              ELSE IF ~Truthy(winnerId) THEN clearBranch(ms, i)
              ELSE setBranch(ms, i, winnerId, auto)
              : i \in {findById(ms, matchId)} })
        : ms \in {ms0} })

\* propagateWinner(matches, matchId, winnerId, true, false): the call made by
\* the sweeps; `same` tells that the input array itself was returned
propagateNoSweep(ms, matchId, winnerId) ==
  the({ [ms |-> r.ms, same |-> ~r.mutated] : r \in {propagateStep(ms, matchId, winnerId, TRUE)} })

\* a feeder test that counts a missing feeder as one that still has teams
feederHasTeamsOrNone(updated, match, side) ==
  LET feederSlot == match.slot * 2 + (IF side = "A" THEN 0 ELSE 1)
      isFeeder(m) == m.round = match.round - 1 /\ m.slot = feederSlot
      feeder == findIndex(updated, isFeeder)
  IN  IF feeder = 0 THEN TRUE
      ELSE Truthy(updated[feeder].teamAId) \/ Truthy(updated[feeder].teamBId)

\* feederHasTeams of propagateAutoAdvances, read from the current `updated`
feederHasTeams(updated, match, side) ==
  LET feederSlot == match.slot * 2 + (IF side = "A" THEN 0 ELSE 1)
      isFeeder(m) == m.round = match.round - 1 /\ m.slot = feederSlot
      feeder == findIndex(updated, isFeeder)
  IN  IF feeder = 0 THEN FALSE
      ELSE Truthy(updated[feeder].teamAId) \/ Truthy(updated[feeder].teamBId)

\* one iteration of propagateAutoAdvances' forEach: `match` is the element of
\* the array the pass started from, `updated` the snapshot built so far
autoAdvanceStep(updated0, match) ==
  the({ (
    LET A == match.teamAId
        B == match.teamBId
        bothEmpty == ~Truthy(A) /\ ~Truthy(B)
        solo == IF Truthy(A) /\ ~Truthy(B) THEN A
                ELSE IF ~Truthy(A) /\ Truthy(B) THEN B
                ELSE Undefined
        passAuto == IF A = PASS_ID /\ Truthy(B) /\ match.winnerId # B /\ ~isPass(B) THEN B
                    ELSE IF B = PASS_ID /\ Truthy(A) /\ match.winnerId # A /\ ~isPass(A) THEN A
                    ELSE Undefined
        missingSide == IF Truthy(A) /\ ~Truthy(B) THEN "B"
                       ELSE IF ~Truthy(A) /\ Truthy(B) THEN "A"
                       ELSE "null"
        waitingFeeder == IF missingSide # "null"
                         THEN feederHasTeams(updated, match, missingSide) ELSE FALSE
        feedersPresent == feederHasTeams(updated, match, "A") \/ feederHasTeams(updated, match, "B")
    IN  IF bothEmpty /\ ~Truthy(match.winnerId) /\ ~feedersPresent
          THEN [ms |-> propagateNoSweep(updated, match.id, PASS_ID).ms, changed |-> TRUE]
        ELSE IF Truthy(solo) /\ ~Truthy(match.winnerId) /\ ~waitingFeeder
          THEN [ms |-> propagateNoSweep(updated, match.id, solo).ms, changed |-> TRUE]
        ELSE IF Truthy(passAuto) /\ ~Truthy(match.winnerId) /\ ~waitingFeeder
          THEN [ms |-> propagateNoSweep(updated, match.id, passAuto).ms, changed |-> TRUE]
        ELSE [ms |-> updated, changed |-> FALSE]
    ) : updated \in {updated0} })

RECURSIVE autoAdvancePass(_, _, _, _)
autoAdvancePass(start, updated0, i, changed0) ==
  the({ IF i > Len(start) THEN [ms |-> updated, changed |-> changed]
        ELSE the({ autoAdvancePass(start, r.ms, i + 1, changed \/ r.changed)
                   : r \in {autoAdvanceStep(updated, start[i])} })
        : updated \in {updated0}, changed \in {changed0} })

RECURSIVE autoAdvanceFrom(_, _)
autoAdvanceFrom(ms0, fuel) ==
  the({ the({ IF fuel = 0 \/ ~r.changed THEN r.ms ELSE autoAdvanceFrom(r.ms, fuel - 1)
              : r \in {autoAdvancePass(ms, ms, 1, FALSE)} })
        : ms \in {ms0} })

propagateAutoAdvances(ms) == autoAdvanceFrom(ms, MaxPasses)

\* a cap of one iteration
maxIterationsSingle(ms) == 1

\* matches.length * 4 || 8
maxIterationsOf(ms) == IF Len(ms) * 4 # 0 THEN Len(ms) * 4 ELSE 8

\* the first decided match, in array order, whose re-propagation changes something
firstUnsettled(ms0) ==
  the({ (
    LET unsettled(m) == Truthy(m.winnerId) /\ ~propagateNoSweep(ms, m.id, m.winnerId).same
    IN  findIndex(ms, unsettled)
    ) : ms \in {ms0} })

RECURSIVE settleFrom(_, _, _)
settleFrom(updated0, iterations, maxIterations) ==
  the({ the({ IF iterations >= maxIterations \/ hit = 0 THEN updated
              ELSE settleFrom(propagateNoSweep(updated, updated[hit].id, updated[hit].winnerId).ms,
                              iterations + 1, maxIterations)
              : hit \in {firstUnsettled(updated)} })
        : updated \in {updated0} })

\* the iterations of settlePassChains' loop that changed the snapshot
RECURSIVE settleChanges(_, _, _)
settleChanges(updated0, iterations, maxIterations) ==
  the({ the({ IF iterations >= maxIterations \/ hit = 0 THEN iterations
              ELSE settleChanges(propagateNoSweep(updated, updated[hit].id, updated[hit].winnerId).ms,
                                 iterations + 1, maxIterations)
              : hit \in {firstUnsettled(updated)} })
        : updated \in {updated0} })

settlePassChains(ms0) ==
  the({ the({ settleFrom(ms, 0, maxIterations) : maxIterations \in {maxIterationsOf(ms)} })
        : ms \in {ms0} })

\* propagateWinner(matches, matchId, winnerId) as its callers outside the
\* engine use it (auto = false, sweep = true): the snapshot returned
propagateWinner(ms, matchId, winnerId) ==
  the({ IF r.toSweep THEN settlePassChains(propagateAutoAdvances(r.ms)) ELSE r.ms
        : r \in {propagateStep(ms, matchId, winnerId, FALSE)} })

\* the matches generateBracket pushes for a seeded layout, before any advance
RECURSIVE buildRounds(_, _, _, _)
buildRounds(seeded, teamsInRound, round, firstId) ==
  LET matchCount == (teamsInRound + 1) \div 2
      roundMatches ==
        [k \in 1..matchCount |->
           Match(firstId + k - 1, round, k - 1,
                 IF round = 1 THEN At(seeded, 2 * (k - 1)).id ELSE Undefined,
                 IF round = 1 THEN At(seeded, 2 * (k - 1) + 1).id ELSE Undefined,
                 Undefined)]
  IN  IF teamsInRound <= 1 THEN <<>>
      ELSE roundMatches \o buildRounds(seeded, matchCount, round + 1, firstId + matchCount)

\* trimTrailingRounds leaves the array as it is
trimTrailingRounds(ms) == ms

generateBracket(list) ==
  IF Len(list) = 0 THEN <<>>
  ELSE the({ trimTrailingRounds(
                    settlePassChains(propagateAutoAdvances(buildRounds(seeded, SizeOf(seeded), 1, 1))))
             : seeded \in {seededTeams(list)} })

----------------------------------------------------------------------------
(* The caller's state and the engine calls *)

\* entrant i of an input list: named by the i-th letter, so names are distinct
Entrant(i, priority) == [id |-> TeamId(i), name |-> <<Upper[i]>>, priority |-> priority]

\* the entrant lists of at most maxN entrants in which any subset is priority
Entrants(maxN) ==
  UNION {{[i \in 1..n |-> Entrant(i, prio[i])] : prio \in [1..n -> BOOLEAN]} : n \in 0..maxN}

\* the entrant lists of at most maxN entrants whose first k entrants are the
\* priority ones; the layout seedTeams returns depends on the priority flags
\* only through the sorted order, so these cover Entrants(maxN) up to renaming
EntrantsPriorityFirst(maxN) ==
  UNION {{[i \in 1..n |-> Entrant(i, i <= k)] : k \in 0..n} : n \in 0..maxN}

InitWith(inputs) ==
  /\ teams \in inputs
  /\ matches = <<>>
  /\ lastOp = "none"
  /\ consolationMatches = <<>>
  /\ scheduled = <<>>
  /\ edits = 0

\* the ids of the round-1 losers, in match order: the occupant that is not
\* the winner of each round-1 match with two occupants and a winner
losersOf(ms) ==
  LET loserOf(match) ==
        IF match.round # 1 THEN Undefined
        ELSE IF ~Truthy(match.teamAId) \/ ~Truthy(match.teamBId) \/ ~Truthy(match.winnerId)
          THEN Undefined
        ELSE IF match.winnerId = match.teamAId THEN match.teamBId ELSE match.teamAId
  IN  SelectSeq([i \in 1..Len(ms) |-> loserOf(ms[i])], Truthy)

\* teams.find((team) => team.id === id), NoTeam when there is none
findTeam(list, id) ==
  LET ok == {k \in 1..Len(list) : list[k].id = id}
  IN  IF ok = {} THEN NoTeam ELSE list[CHOOSE k \in ok : \A j \in ok : k <= j]

\* the losers that are teams of the list, in the order of the losers
loserTeamsOf(losers, list) ==
  LET found(team) == team # NoTeam
  IN  SelectSeq([i \in 1..Len(losers) |-> findTeam(list, losers[i])], found)

\* the ids in the slots of a snapshot
prevIdsOf(prev) ==
  {id \in UNION {{prev[i].teamAId, prev[i].teamBId} : i \in 1..Len(prev)} : Truthy(id)}

\* an effect that keeps the bracket it finds when it has as many ids as there
\* are losers
consolationEffectBySize(prev, ms, list) ==
  the({ (
    LET loserIds == {losers[i] : i \in 1..Len(losers)}
        prevIds == prevIdsOf(prev)
        sameSet == Cardinality(prevIds) = Cardinality(loserIds)
    IN  IF Len(losers) = 0 THEN <<>>
        ELSE IF Len(prev) # 0 /\ sameSet THEN prev
        ELSE the({ generateBracket(loserTeams) : loserTeams \in {loserTeamsOf(losers, list)} })
    ) : losers \in {losersOf(ms)} })

\* the consolation bracket the effect on [matches, teams] leaves, given the
\* one it finds
consolationEffect(prev, ms, list) ==
  the({ (
    LET loserIds == {losers[i] : i \in 1..Len(losers)}
        prevIds == prevIdsOf(prev)
        sameSet == /\ Cardinality(prevIds) = Cardinality(loserIds)
                   /\ \A id \in prevIds : id \in loserIds
    IN  IF Len(losers) = 0 THEN <<>>
        ELSE IF Len(prev) # 0 /\ sameSet THEN prev
        ELSE the({ generateBracket(loserTeams) : loserTeams \in {loserTeamsOf(losers, list)} })
    ) : losers \in {losersOf(ms)} })

\* handleTeamsParsed(parsed): the bracket is generated, the schedule and the
\* consolation bracket are emptied, and the effect runs on the new bracket
Build ==
  /\ lastOp = "none"
  /\ \E generated \in {generateBracket(teams)} :
       /\ matches' = generated
       /\ consolationMatches' = consolationEffect(<<>>, generated, teams)
  /\ scheduled' = <<>>
  /\ lastOp' = "build"
  /\ UNCHANGED <<teams, edits>>

\* the ids a winner select offers for a match: its occupants
occupantsOf(m) == {m.teamAId, m.teamBId} \ {Undefined}

\* propagateWinner(matches, matchId, winnerId) called on the snapshot with
\* winnerId an occupant of the match
SetWinner(matchId, winnerId) ==
  /\ lastOp # "none"
  /\ matchId \in 1..Len(matches)
  /\ winnerId \in occupantsOf(matches[matchId])
  /\ matches' = propagateWinner(matches, matchId, winnerId)
  /\ lastOp' = "set"
  /\ UNCHANGED <<teams, consolationMatches, scheduled, edits>>

\* propagateWinner(matches, matchId, undefined) called on the snapshot
ClearWinner(matchId) ==
  /\ lastOp # "none"
  /\ matchId \in 1..Len(matches)
  /\ matches' = propagateWinner(matches, matchId, Undefined)
  /\ lastOp' = "clear"
  /\ UNCHANGED <<teams, consolationMatches, scheduled, edits>>

----------------------------------------------------------------------------
(* The application's handlers *)

\* BracketEditor: a match offers its occupants for picking when neither is
\* the pass marker and both are teams of the list (fromPrev holds of every
\* occupant: the match found by winner id has a winner)
canPick(match, list) ==
  LET hasSide(id) == Truthy(id) /\ (isPass(id) \/ \E k \in 1..Len(list) : list[k].id = id)
      hasPassSide == isPass(match.teamAId) \/ isPass(match.teamBId)
  IN  ~hasPassSide /\ hasSide(match.teamAId) /\ hasSide(match.teamBId)

\* BracketEditor.handleWinner: picking the recorded winner again deselects it
pickedWinner(match, teamId) == IF match.winnerId = teamId THEN Undefined ELSE teamId

\* App.handleWinner(matchId, winnerId) from a pick in the main bracket,
\* followed by the effect on the new bracket
handleWinner(matchId, teamId) ==
  /\ lastOp # "none"
  /\ matchId \in 1..Len(matches)
  /\ canPick(matches[matchId], teams)
  /\ teamId \in occupantsOf(matches[matchId])
  /\ \E updated \in {the({ propagateWinner(matches, matchId, winnerId) :
                               winnerId \in {pickedWinner(matches[matchId], teamId)} })} :
       /\ matches' = updated
       /\ consolationMatches' = consolationEffect(consolationMatches, updated, teams)
  /\ lastOp' = "winner"
  /\ UNCHANGED <<teams, scheduled, edits>>

\* App.handleConsolationWinner(matchId, winnerId) from a pick in the
\* consolation bracket; the effect does not depend on that bracket
handleConsolationWinner(matchId, teamId) ==
  /\ lastOp # "none"
  /\ matchId \in 1..Len(consolationMatches)
  /\ canPick(consolationMatches[matchId], teams)
  /\ teamId \in occupantsOf(consolationMatches[matchId])
  /\ \E winnerId \in {pickedWinner(consolationMatches[matchId], teamId)} :
       consolationMatches' = propagateWinner(consolationMatches, matchId, winnerId)
  /\ lastOp' = "consolation"
  /\ UNCHANGED <<teams, matches, scheduled, edits>>

\* TeamsPanel.updateTeam(id, { blackoutDates }) through onTeamsChange: the
\* list is replaced by one whose ids, names and priorities are the same, and
\* the effect runs on it
updateTeam ==
  /\ lastOp # "none"
  /\ consolationMatches' = consolationEffect(consolationMatches, matches, teams)
  /\ lastOp' = "edit"
  /\ UNCHANGED <<teams, matches, scheduled, edits>>

\* pairKey(a, b): the two ids whatever their order
pairKey(a, b) == {a, b}

\* App.scheduleMatch(date, teamAId, teamBId, round) for a match of the main
\* bracket with both occupants and no winner, as CalendarPanel offers them; a
\* pairing already scheduled is refused, and the list is replaced, so that
\* the effect runs, when both occupants are teams of it
scheduleMatch(matchId) ==
  /\ lastOp # "none"
  /\ matchId \in 1..Len(matches)
  /\ Truthy(matches[matchId].teamAId) /\ Truthy(matches[matchId].teamBId)
  /\ ~Truthy(matches[matchId].winnerId)
  /\ Len(scheduled) < MaxScheduled
  /\ ~\E k \in 1..Len(scheduled) :
        pairKey(scheduled[k].teamAId, scheduled[k].teamBId) =
          pairKey(matches[matchId].teamAId, matches[matchId].teamBId)
  /\ scheduled' = Append(scheduled, [teamAId |-> matches[matchId].teamAId,
                                     teamBId |-> matches[matchId].teamBId,
                                     round |-> matches[matchId].round])
  /\ consolationMatches' =
       IF findTeam(teams, matches[matchId].teamAId) # NoTeam
            /\ findTeam(teams, matches[matchId].teamBId) # NoTeam
         THEN consolationEffect(consolationMatches, matches, teams)
         ELSE consolationMatches
  /\ lastOp' = "schedule"
  /\ UNCHANGED <<teams, matches, edits>>

\* a regeneration that leaves the schedule as it was
regenerateBracketKeepingSchedule(nextTeams) ==
  [teams |-> nextTeams, matches |-> generateBracket(nextTeams),
   consolationMatches |-> <<>>, scheduled |-> scheduled]

\* App.regenerateBracket(nextTeams): what the four setters are given
regenerateBracket(nextTeams) ==
  [teams |-> nextTeams, matches |-> generateBracket(nextTeams),
   consolationMatches |-> <<>>, scheduled |-> <<>>]

\* the state after regenerateBracket(nextTeams) and the effect on its result
Regenerated(nextTeams) ==
  \E next \in {regenerateBracket(nextTeams)} :
    /\ teams' = next.teams
    /\ matches' = next.matches
    /\ consolationMatches' = consolationEffect(next.consolationMatches, next.matches, next.teams)
    /\ scheduled' = next.scheduled

\* the decimal digits of a natural number
RECURSIVE decimal(_)
decimal(n) == IF n < 10 THEN <<Digits[n + 1]>> ELSE decimal(n \div 10) \o <<Digits[(n % 10) + 1]>>

\* the team handleAddTeam makes: a fresh id, the name `Team ${teams.length + 1}`
newTeam ==
  [id |-> "u" \o ToString(edits + 1),
   name |-> <<"T", "e", "a", "m", " ">> \o decimal(Len(teams) + 1),
   priority |-> FALSE]

\* App.handleAddTeam(): the new team goes first
handleAddTeam ==
  /\ lastOp # "none"
  /\ edits < MaxEdits
  /\ \E nextTeams \in {<<newTeam>> \o teams} : Regenerated(nextTeams)
  /\ edits' = edits + 1
  /\ lastOp' = "add"

\* App.handleRemoveTeam(id)
handleRemoveTeam(id) ==
  /\ lastOp # "none"
  /\ edits < MaxEdits
  /\ \E k \in 1..Len(teams) : teams[k].id = id
  /\ LET kept(team) == team.id # id
     IN  \E updated \in {SelectSeq(teams, kept)} : Regenerated(updated)
  /\ edits' = edits + 1
  /\ lastOp' = "remove"

Init == InitWith(EntrantsPriorityFirst(MaxTeams))

Next ==
  \/ Build
  \/ \E matchId \in 1..Len(matches) : \E winnerId \in occupantsOf(matches[matchId]) :
       SetWinner(matchId, winnerId)
  \/ \E matchId \in 1..Len(matches) : ClearWinner(matchId)

Spec == Init /\ [][Next]_vars

\* the seeding specification: larger entrant lists, build only
InitSeed == InitWith(Entrants(MaxSeedTeams))

NextSeed == Build

SpecSeed == InitSeed /\ [][NextSeed]_vars

\* the specification of the seeding loops: every priority subset, build only
InitLoops == InitWith(Entrants(MaxLoopTeams))

NextLoops == Build

SpecLoops == InitLoops /\ [][NextLoops]_vars

\* the wide seeding specification: brackets of sixteen slots, build only
InitWide == InitWith(EntrantsPriorityFirst(MaxWideTeams))

NextWide == Build

SpecWide == InitWide /\ [][NextWide]_vars

\* names that differ by case, by a parenthetical suffix, or altogether
NamePool ==
  { <<"E", "a", "g", "l", "e", "s">>,
    <<"E", "a", "g", "l", "e", "s", " ", "(", "B", "l", "u", "e", ")">>,
    <<"e", "a", "g", "l", "e", "s">>,
    <<"L", "i", "o", "n", "s">> }

\* the entrant lists of at most maxN entrants with distinct ids, names from
\* NamePool and any subset priority
NamedEntrants(maxN) ==
  UNION {{[i \in 1..n |-> [id |-> TeamId(i), name |-> names[i], priority |-> prio[i]]] :
            names \in [1..n -> NamePool], prio \in [1..n -> BOOLEAN]} : n \in 0..maxN}

\* building the bracket of a list in which names may repeat
InitNames == InitWith(NamedEntrants(MaxNameTeams))

NextNames == Build

SpecNames == InitNames /\ [][NextNames]_vars

\* the application: a list is loaded, results are picked in both brackets,
\* games are scheduled, teams are edited, added and removed
AppEntrants ==
  UNION {{[i \in 1..n |-> Entrant(i, i <= k)] :
            k \in {p \in 0..MaxAppPriority : p <= n}} : n \in 0..MaxAppTeams}

InitApp == InitWith(AppEntrants)

NextApp ==
  \/ Build
  \/ \E matchId \in 1..Len(matches) : \E teamId \in occupantsOf(matches[matchId]) :
       handleWinner(matchId, teamId)
  \/ \E matchId \in 1..Len(consolationMatches) :
       \E teamId \in occupantsOf(consolationMatches[matchId]) :
         handleConsolationWinner(matchId, teamId)
  \/ updateTeam
  \/ \E matchId \in 1..Len(matches) : scheduleMatch(matchId)
  \/ handleAddTeam
  \/ \E k \in 1..Len(teams) : handleRemoveTeam(teams[k].id)

SpecApp == InitApp /\ [][NextApp]_vars

\* tournaments large enough for a consolation bracket with byes, which takes
\* a priority entrant among the losers: the matches of the first rounds of
\* the main bracket are played once each, in the order of the snapshot, and
\* the consolation bracket is played as the losers come in
ConsolationEntrants ==
  {[i \in 1..ConsolationTeams |-> Entrant(i, i <= k)] : k \in 1..MaxConsolationPriority}

InitConsolation == InitWith(ConsolationEntrants)

NextConsolation ==
  \/ Build
  \/ \E matchId \in 1..Len(matches) : \E teamId \in occupantsOf(matches[matchId]) :
       /\ matches[matchId].round <= MaxPlayedRound
       /\ ~Truthy(matches[matchId].winnerId)
       /\ \A earlier \in 1..(matchId - 1) :
            canPick(matches[earlier], teams) => Truthy(matches[earlier].winnerId)
       /\ handleWinner(matchId, teamId)
  \/ \E matchId \in 1..Len(consolationMatches) :
       \E teamId \in occupantsOf(consolationMatches[matchId]) :
         handleConsolationWinner(matchId, teamId)
  \/ updateTeam

SpecConsolation == InitConsolation /\ [][NextConsolation]_vars

----------------------------------------------------------------------------
(* Vocabulary of the properties *)

EntrantIds == {teams[i].id : i \in 1..Len(teams)}

RoundOne(ms) == {i \in 1..Len(ms) : ms[i].round = 1}

isEntrant(id) == id \in EntrantIds

\* the entrant with this id is a priority entrant
isPriority(id) == \E k \in 1..Len(teams) : teams[k].id = id /\ teams[k].priority

PriorityIds == {id \in EntrantIds : isPriority(id)}

\* the round-1 matches in which a priority entrant faces an empty slot
priorityByeMatches(ms) ==
  {i \in RoundOne(ms) :
     \/ isPriority(ms[i].teamAId) /\ ms[i].teamBId = Undefined
     \/ isPriority(ms[i].teamBId) /\ ms[i].teamAId = Undefined}

\* the round-1 positions <<match, key>> that hold the id
roundOnePositions(ms, id) ==
  {pos \in RoundOne(ms) \X {"teamAId", "teamBId"} : ms[pos[1]][pos[2]] = id}

\* the <<feeder, parent>> steps from match i toward the final
RECURSIVE pathFrom(_, _)
pathFrom(ms, i) ==
  LET next == findNextMatch(ms, ms[i].round, ms[i].slot)
  IN  IF next = 0 THEN {} ELSE {<<i, next>>} \cup pathFrom(ms, next)

\* the engine's auto-advance and re-propagation sweep
sweepOf(ms) == settlePassChains(propagateAutoAdvances(ms))

\* no automatic advancement or cascade is pending in the snapshot
Stable(ms) == sweepOf(ms) = ms

\* the winner assignments a caller can ask for in the current snapshot
Assignable == {mw \in (1..Len(matches)) \X (EntrantIds \cup {PASS_ID}) :
                 mw[2] \in occupantsOf(matches[mw[1]])}

----------------------------------------------------------------------------
(* C1: every entrant of a list of two or more entrants with distinct names *)
(* occupies exactly one teamAId/teamBId position of the round-1 matches    *)
(* generateBracket returns.                                                *)
C1_EveryEntrantInOneSlot ==
  (lastOp = "build" /\ Len(teams) >= 2) =>
    \A id \in EntrantIds : Cardinality(roundOnePositions(matches, id)) = 1

(* C2: in every snapshot reachable by build, set-to-an-occupant and clear, *)
(* a match whose winnerId is set has it equal to its teamAId or teamBId;   *)
(* the pass sentinel is taken as a legal winner wherever it appears.       *)
C2_WinnerIsOccupant ==
  \A i \in 1..Len(matches) :
    Truthy(matches[i].winnerId) =>
      matches[i].winnerId \in {matches[i].teamAId, matches[i].teamBId, PASS_ID}

(* C3: when match m has winner X and the winner is changed to another      *)
(* occupant Y, no match on the path from m's parent to the final holds X   *)
(* in the slot fed from that path or as its winner in the snapshot         *)
(* returned.                                                               *)
C3_CascadeClearsDerived ==
  \A mw \in Assignable :
    LET m == mw[1]
        Y == mw[2]
        X == matches[m].winnerId
    IN  (Truthy(X) /\ X # Y) =>
          \A after \in {propagateWinner(matches, m, Y)} :
            \A step \in pathFrom(matches, m) :
              /\ after[step[2]][targetKeyOf(matches[step[1]].slot)] # X
              /\ after[step[2]].winnerId # X

\* a snapshot in which a round-1 result X has been carried two rounds up, and
\* changing it to Y rewrites the parent slot and clears what X had won
C3_Witness ==
  /\ lastOp = "set"
  /\ \E mw \in Assignable :
       LET m == mw[1]
           Y == mw[2]
           X == matches[m].winnerId
           parent == findNextMatch(matches, matches[m].round, matches[m].slot)
           grand == IF parent = 0 THEN 0
                    ELSE findNextMatch(matches, matches[parent].round, matches[parent].slot)
       IN  /\ isEntrant(X) /\ isEntrant(Y) /\ X # Y
           /\ parent # 0 /\ grand # 0
           /\ matches[parent].winnerId = X
           /\ matches[grand][targetKeyOf(matches[parent].slot)] = X
           /\ \E after \in {propagateWinner(matches, m, Y)} :
                /\ after[m].winnerId = Y
                /\ after[parent][targetKeyOf(matches[m].slot)] = Y
                /\ after[parent].winnerId = Undefined
                /\ after[grand][targetKeyOf(matches[parent].slot)] = Undefined

(* C4: a winner assignment whose winnerId is neither teamAId nor teamBId   *)
(* of the target match returns the input snapshot unchanged.               *)
C4_InvalidWinnerRejected ==
  \A m \in 1..Len(matches) :
    \A w \in (EntrantIds \cup {PASS_ID}) \ occupantsOf(matches[m]) :
      propagateWinner(matches, m, w) = matches

(* C5: after propagateWinner(matches, m, w) with w an occupant of m, match *)
(* m has winnerId w and, when m is not the final, its parent holds w in    *)
(* teamAId for an even slot of m and in teamBId for an odd one.            *)
C5_SetWritesWinnerAndParent ==
  \A mw \in Assignable :
    LET m == mw[1]
        w == mw[2]
        parent == findNextMatch(matches, matches[m].round, matches[m].slot)
    IN  \A after \in {propagateWinner(matches, m, w)} :
          /\ after[m].winnerId = w
          /\ parent # 0 => after[parent][targetKeyOf(matches[m].slot)] = w

(* C6: for N >= 2 entrants with distinct names the snapshot has            *)
(* bracketSize - 1 matches, bracketSize being the smallest power of two    *)
(* that is at least N, and round R holds bracketSize / 2^R matches whose   *)
(* slots are 0 .. count - 1; for N = 1 there is no match.                  *)
C6_MatchCountAndSlots ==
  lastOp = "build" =>
    LET N == Len(teams)
        powers == {Pow2(e) : e \in 0..(N + 1)}
        bracketSize == CHOOSE p \in powers : p >= N /\ \A q \in powers : q >= N => p <= q
        rounds == CHOOSE e \in 0..(N + 1) : Pow2(e) = bracketSize
        inRound(R) == {i \in 1..Len(matches) : matches[i].round = R}
    IN  /\ N = 1 => matches = <<>>
        /\ N >= 2 =>
             /\ Len(matches) = bracketSize - 1
             /\ \A i \in 1..Len(matches) : matches[i].round \in 1..rounds
             /\ \A R \in 1..rounds :
                  /\ Cardinality(inRound(R)) = bracketSize \div Pow2(R)
                  /\ {matches[i].slot : i \in inRound(R)} = 0..(bracketSize \div Pow2(R) - 1)

\* five entrants: a bracket of size 8 with 7 matches in rounds of 4, 2 and 1
C6_Witness ==
  /\ lastOp = "build"
  /\ Len(teams) = 5
  /\ Len(matches) = 7
  /\ Cardinality({i \in 1..Len(matches) : matches[i].round = 1}) = 4
  /\ Cardinality({i \in 1..Len(matches) : matches[i].round = 2}) = 2
  /\ Cardinality({i \in 1..Len(matches) : matches[i].round = 3}) = 1

(* C7: in the snapshot generateBracket returns, a round-1 match with       *)
(* exactly one entrant has that entrant as winnerId and the entrant sits   *)
(* in the slot of the round-2 parent the match feeds; a round-1 match with *)
(* two entrants has no winnerId.                                           *)
C7_ByesAdvancedAtBuild ==
  lastOp = "build" =>
    \A i \in RoundOne(matches) :
      LET A == matches[i].teamAId
          B == matches[i].teamBId
          parent == findNextMatch(matches, 1, matches[i].slot)
          only == IF isEntrant(A) THEN A ELSE B
      IN  /\ (isEntrant(A) /\ isEntrant(B)) => matches[i].winnerId = Undefined
          /\ (isEntrant(A) # isEntrant(B)) =>
               /\ matches[i].winnerId = only
               /\ parent # 0 => matches[parent][targetKeyOf(matches[i].slot)] = only

\* five non-priority entrants: three byes advanced, one match awaiting a result
C7_Witness ==
  /\ lastOp = "build"
  /\ Len(teams) = 5
  /\ \A k \in 1..Len(teams) : ~teams[k].priority
  /\ Cardinality({i \in RoundOne(matches) :
                    /\ isEntrant(matches[i].teamAId) # isEntrant(matches[i].teamBId)
                    /\ isEntrant(matches[i].winnerId)
                    /\ \E p \in 1..Len(matches) :
                         /\ matches[p].round = 2
                         /\ matches[i].winnerId \in {matches[p].teamAId, matches[p].teamBId}}) = 3
  /\ Cardinality({i \in RoundOne(matches) :
                    /\ isEntrant(matches[i].teamAId) /\ isEntrant(matches[i].teamBId)
                    /\ matches[i].winnerId = Undefined}) = 1

(* C8: assigning the same occupant w to match m twice returns the same     *)
(* snapshot as assigning it once, and assigning w when m already has       *)
(* winnerId w and the parent slot already holds w returns the input        *)
(* snapshot.                                                               *)
C8_SetIdempotent ==
  \A mw \in Assignable :
    LET m == mw[1]
        w == mw[2]
        parent == findNextMatch(matches, matches[m].round, matches[m].slot)
        held == /\ matches[m].winnerId = w
                /\ parent # 0 => matches[parent][targetKeyOf(matches[m].slot)] = w
    IN  \A once \in {propagateWinner(matches, m, w)} :
          /\ propagateWinner(once, m, w) = once
          /\ held => once = matches

\* set followed by clear on the same match
roundTrip(ms, m, w) == propagateWinner(propagateWinner(ms, m, w), m, Undefined)

\* nothing is recorded on the path from m's parent to the final: no winner,
\* and no occupant in the slots fed along the path
pathBlank(ms, m) ==
  \A step \in pathFrom(ms, m) :
    /\ ms[step[2]].winnerId = Undefined
    /\ ms[step[2]][targetKeyOf(ms[step[1]].slot)] = Undefined

(* C9: for every reachable snapshot, every match m and every occupant w of *)
(* m, clearing m after setting it to w gives the snapshot back, except     *)
(* where a field holds the value the automatic advancement of byes gives   *)
(* it.  Stated for the matches m that have no winner and nothing recorded  *)
(* on their path to the final, which is where a set followed by a clear    *)
(* has nothing else to lose.                                               *)
C9_RoundTrip ==
  \A mw \in Assignable :
    (matches[mw[1]].winnerId = Undefined /\ pathBlank(matches, mw[1])) =>
      \A back \in {roundTrip(matches, mw[1], mw[2])}, swept \in {sweepOf(matches)} :
        \A i \in 1..Len(matches) :
          \A key \in {"id", "round", "slot", "teamAId", "teamBId", "winnerId"} :
            back[i][key] \in {matches[i][key], swept[i][key]}

(* C10: every snapshot returned by build, set or clear is left unchanged   *)
(* by the automatic-advancement pass followed by the PASS-chain settling.  *)
C10_ReturnedSnapshotSettled ==
  lastOp # "none" => Stable(matches)

(* C11: when the priority entrants are at most bracketSize / 2, so that    *)
(* they fit in different round-1 pairs, no round-1 match of the snapshot   *)
(* generateBracket returns has a priority entrant in both slots.           *)
C11_NoPriorityPairWhenAvoidable ==
  (lastOp = "build" /\ 2 * Cardinality(PriorityIds) <= nextPowerOfTwo(Len(teams))) =>
    \A i \in RoundOne(matches) :
      ~(isPriority(matches[i].teamAId) /\ isPriority(matches[i].teamBId))

(* C12: for N >= 2 entrants no round-1 match has both slots empty: every   *)
(* round-1 match holds an entrant, exactly bracketSize - N of them hold a  *)
(* single entrant, and the pass sentinel appears nowhere in round 1.       *)
C12_NoByeFacingBye ==
  (lastOp = "build" /\ Len(teams) >= 2) =>
    /\ \A i \in RoundOne(matches) :
         isEntrant(matches[i].teamAId) \/ isEntrant(matches[i].teamBId)
    /\ Cardinality({i \in RoundOne(matches) :
                      isEntrant(matches[i].teamAId) # isEntrant(matches[i].teamBId)})
         = nextPowerOfTwo(Len(teams)) - Len(teams)
    /\ \A i \in RoundOne(matches) :
         PASS_ID \notin {matches[i].teamAId, matches[i].teamBId, matches[i].winnerId}

(* C13: in the snapshot generateBracket returns, where every winner is an  *)
(* automatic one, no entrant is the winner of more than one match: an      *)
(* entrant advanced by a round-1 bye is not advanced again in round 2.     *)
C13_NoDoubleAutoAdvance ==
  lastOp = "build" =>
    \A id \in EntrantIds :
      Cardinality({i \in 1..Len(matches) : matches[i].winnerId = id}) <= 1

(* C14 as claimed: when the byes, bracketSize - N, are at most the         *)
(* non-priority entrants, no round-1 match pairs a priority entrant with   *)
(* an empty slot.                                                          *)
C14_NoPriorityByeWhenCovered ==
  (/\ lastOp = "build"
   /\ nextPowerOfTwo(Len(teams)) - Len(teams) <= Len(teams) - Cardinality(PriorityIds)) =>
    priorityByeMatches(matches) = {}

(* C14 as amended: a priority entrant faces an empty slot in round 1 only  *)
(* when every non-priority entrant already faces a priority entrant, so    *)
(* that none is left to fill the slot.                                     *)
C14_PriorityByeOnlyWhenNoneFree ==
  (lastOp = "build" /\ priorityByeMatches(matches) # {}) =>
    \A i \in RoundOne(matches) :
      /\ (isEntrant(matches[i].teamAId) /\ ~isPriority(matches[i].teamAId)) =>
           isPriority(matches[i].teamBId)
      /\ (isEntrant(matches[i].teamBId) /\ ~isPriority(matches[i].teamBId)) =>
           isPriority(matches[i].teamAId)

\* more priority entrants than the others can face: one of them is left with
\* a bye while every non-priority entrant faces a priority entrant
C14_Witness ==
  /\ lastOp = "build"
  /\ priorityByeMatches(matches) # {}
  /\ EntrantIds \ PriorityIds # {}
  /\ \A id \in EntrantIds \ PriorityIds :
       \E i \in RoundOne(matches) :
         \/ matches[i].teamAId = id /\ isPriority(matches[i].teamBId)
         \/ matches[i].teamBId = id /\ isPriority(matches[i].teamAId)

\* ids that no match of the snapshot has
AbsentIds == {0, Len(matches) + 1}

(* C15: propagateWinner called with a match id that no match of the        *)
(* snapshot has, to set any winner or to clear, returns the snapshot it    *)
(* was given.                                                              *)
C15_UnknownMatchIsNoOp ==
  \A matchId \in AbsentIds :
    \A w \in EntrantIds \cup {PASS_ID, Undefined} :
      propagateWinner(matches, matchId, w) = matches

\* a snapshot that the same call changes when the id is that of a match
C15_Witness ==
  /\ lastOp = "set"
  /\ Len(matches) >= 3
  /\ \E w \in EntrantIds :
       /\ propagateWinner(matches, Len(matches) + 1, w) = matches
       /\ propagateWinner(matches, 1, w) # matches
       /\ propagateWinner(matches, Len(matches) + 1, Undefined) = matches
       /\ propagateWinner(matches, 1, Undefined) # matches

\* the parents met on the way from match m to the final
pathParents(ms, m) == {step[2] : step \in pathFrom(ms, m)}

(* C16: clearing the winner of a decided match m leaves m without winner,  *)
(* and every match on the path from m's parent to the final without        *)
(* winner and with the slot fed along the path empty; the occupants of m,  *)
(* the other slot of each match on the path and every match off the path   *)
(* are as before.                                                          *)
C16_ClearCascadesTowardFinal ==
  \A m \in 1..Len(matches) :
    Truthy(matches[m].winnerId) =>
      \A after \in {propagateWinner(matches, m, Undefined)} :
        /\ after[m] = [matches[m] EXCEPT !.winnerId = Undefined]
        /\ \A step \in pathFrom(matches, m) :
             /\ after[step[2]].winnerId = Undefined
             /\ after[step[2]][targetKeyOf(matches[step[1]].slot)] = Undefined
             /\ after[step[2]][opponentKeyOf(targetKeyOf(matches[step[1]].slot))]
                  = matches[step[2]][opponentKeyOf(targetKeyOf(matches[step[1]].slot))]
        /\ \A i \in (1..Len(matches)) \ ({m} \cup pathParents(matches, m)) :
             after[i] = matches[i]

\* a decided match whose winner has been carried two rounds up: clearing it
\* empties the parent's and the grandparent's fed slots and the parent's winner
C16_Witness ==
  /\ lastOp = "set"
  /\ \E m \in 1..Len(matches) :
       LET X == matches[m].winnerId
           parent == findNextMatch(matches, matches[m].round, matches[m].slot)
           grand == IF parent = 0 THEN 0
                    ELSE findNextMatch(matches, matches[parent].round, matches[parent].slot)
       IN  /\ isEntrant(X)
           /\ parent # 0 /\ grand # 0
           /\ matches[parent].winnerId = X
           /\ matches[grand][targetKeyOf(matches[parent].slot)] = X
           /\ \E after \in {propagateWinner(matches, m, Undefined)} :
                /\ after[m].winnerId = Undefined
                /\ after[parent].winnerId = Undefined
                /\ after[parent][targetKeyOf(matches[m].slot)] = Undefined
                /\ after[grand][targetKeyOf(matches[parent].slot)] = Undefined

(* C17: when an occupant w of match m is made its winner and the other     *)
(* slot of m's parent already holds w, the parent does not hold w in both  *)
(* slots afterwards, and the parent and every match after it on the way to *)
(* the final have no winner.                                               *)
C17_NoSelfMatch ==
  \A mw \in Assignable :
    LET m == mw[1]
        w == mw[2]
        parent == findNextMatch(matches, matches[m].round, matches[m].slot)
        opponentKey == opponentKeyOf(targetKeyOf(matches[m].slot))
    IN  (isEntrant(w) /\ parent # 0 /\ matches[parent][opponentKey] = w) =>
          \A after \in {propagateWinner(matches, m, w)} :
            /\ ~(after[parent].teamAId = w /\ after[parent].teamBId = w)
            /\ after[parent].winnerId = Undefined
            /\ \A step \in pathFrom(matches, parent) : after[step[2]].winnerId = Undefined

----------------------------------------------------------------------------
(* The consolation bracket *)

\* the set of round-1 losers of a snapshot
loserSet(ms) == {losersOf(ms)[i] : i \in 1..Len(losersOf(ms))}

\* the picks the main bracket offers: a match that can be picked and one of
\* its occupants
MainPicks ==
  {mw \in (1..Len(matches)) \X (EntrantIds \cup {PASS_ID}) :
     canPick(matches[mw[1]], teams) /\ mw[2] \in occupantsOf(matches[mw[1]])}

\* C18: when the team list changes, or the main bracket changes by a pick
\* that leaves the set of round-1 losers as it was, the recomputation keeps
\* the consolation bracket, with the winners recorded in it.
C18_SameLosersKeepConsolation ==
  lastOp # "none" =>
    /\ consolationEffect(consolationMatches, matches, teams) = consolationMatches
    /\ \A mw \in MainPicks :
         \A updated \in {propagateWinner(matches, mw[1], pickedWinner(matches[mw[1]], mw[2]))} :
           loserSet(updated) = loserSet(matches) =>
             consolationEffect(consolationMatches, updated, teams) = consolationMatches

\* the entrants in the round-1 slots of a snapshot
roundOneEntrants(ms) ==
  {id \in UNION {{ms[i].teamAId, ms[i].teamBId} : i \in RoundOne(ms)} :
     Truthy(id) /\ ~isPass(id)}

manualWinners(ms) ==
  {i \in 1..Len(ms) :
     Truthy(ms[i].winnerId) /\ isEntrant(ms[i].teamAId) /\ isEntrant(ms[i].teamBId)}

\* C20: after handleAddTeam or handleRemoveTeam the matches are
\* generateBracket of the new entrant list, none of them holds a winner
\* recorded by hand, and the consolation bracket and the schedule are empty.
C20_EditReplacesBracket ==
  lastOp \in {"add", "remove"} =>
    /\ matches = generateBracket(teams)
    /\ manualWinners(matches) = {}
    /\ consolationMatches = <<>>
    /\ scheduled = <<>>

\* C20 witness: a bracket with a result recorded by hand, a consolation
\* bracket and a scheduled game, from which removing an entrant leaves none
\* of the three
C20_Witness ==
  /\ lastOp # "none"
  /\ edits = 0
  /\ scheduled # <<>>
  /\ consolationMatches # <<>>
  /\ manualWinners(matches) # {}
  /\ \E k \in 1..Len(teams) :
       LET kept(team) == team.id # teams[k].id
       IN  \A next \in {regenerateBracket(SelectSeq(teams, kept))} :
             /\ Len(next.matches) > 0
             /\ \A i \in 1..Len(next.matches) :
                  Truthy(next.matches[i].winnerId) =>
                    ~Truthy(next.matches[i].teamAId) \/ ~Truthy(next.matches[i].teamBId)
             /\ next.consolationMatches = <<>>
             /\ next.scheduled = <<>>

----------------------------------------------------------------------------
(* Names *)

\* the entrants that are the first of the list with their normalized name
firstOfName ==
  {teams[i].id : i \in {k \in 1..Len(teams) :
     \A j \in 1..(k - 1) : normalizeName(teams[j].name) # normalizeName(teams[k].name)}}

suffixedPairs ==
  {ij \in (1..Len(teams)) \X (1..Len(teams)) :
     /\ teams[ij[1]].id # teams[ij[2]].id
     /\ Len(teams[ij[2]].name) > Len(teams[ij[1]].name) + 2
     /\ SubSeq(teams[ij[2]].name, 1, Len(teams[ij[1]].name) + 2) = teams[ij[1]].name \o <<" ", "(">>
     /\ teams[ij[2]].name[Len(teams[ij[2]].name)] = ")"}

\* C22: two entrants with different ids whose names differ only by a
\* parenthetical suffix are both seeded into round 1.
C22_SuffixedNamesDistinct ==
  lastOp = "build" =>
    \A ij \in suffixedPairs :
      {teams[ij[1]].id, teams[ij[2]].id} \subseteq roundOneEntrants(matches)

----------------------------------------------------------------------------
(* Termination of the seeding loops *)

\* the stages of the seeding of the current entrant list
stagesOfTeams ==
  the({ seedingStages(sortedTeams, nextPowerOfTwo(Len(sortedTeams)))
        : sortedTeams \in {sortTeams(uniqueTeams(teams))} })

(* C23: each repeat-until-stable loop of seedTeams ends on a pass that     *)
(* reports no change (resolvePriorityByes, collapseNonPriorityByes,        *)
(* swapPriorityByes, tryImprovePairs), and every swap tryImprovePairs      *)
(* keeps makes the triple (priority conflicts, same-name conflicts,        *)
(* priority-vs-bye pairs) strictly smaller in lexicographic order.         *)
C23_SeedingLoopsStop ==
  lastOp = "build" =>
    \A st \in {stagesOfTeams} :
      /\ ~resolvePriorityByes(st.resolved).changed
      /\ ~collapseNonPriorityByes(st.collapsed).changed
      /\ ~swapPriorityByes(st.swapped).changed
      /\ ~tryImprovePairs(st.chain[Len(st.chain)]).changed
      /\ st.chain[Len(st.chain)] = seededTeams(teams)
      /\ \A k \in 1..(Len(st.chain) - 1) :
           \A now \in {totalScore(st.chain[k])}, next \in {totalScore(st.chain[k + 1])} :
             \/ next[1] < now[1]
             \/ (next[1] = now[1] /\ next[2] < now[2])
             \/ (next[1] = now[1] /\ next[2] = now[2] /\ next[3] < now[3])

\* a list for which collapseNonPriorityByes moved an entrant and
\* tryImprovePairs kept a swap
C23_Witness ==
  /\ lastOp = "build"
  /\ \A st \in {stagesOfTeams} :
       /\ st.collapsed # st.resolved
       /\ Len(st.chain) >= 2
       /\ ~tryImprovePairs(st.chain[Len(st.chain)]).changed

----------------------------------------------------------------------------
(* The cap of settlePassChains *)

\* the snapshots settlePassChains is given: by generateBracket when it built
\* the current snapshot, and by each set the current snapshot allows
settleInputs ==
  {propagateAutoAdvances(r.ms) :
     r \in {c \in {propagateStep(matches, mw[1], mw[2], FALSE) : mw \in Assignable} : c.toSweep}}
  \cup (IF lastOp = "build" /\ Len(teams) > 0
        THEN {propagateAutoAdvances(buildRounds(seeded, SizeOf(seeded), 1, 1))
                : seeded \in {seededTeams(teams)}}
        ELSE {})

(* C24: in every snapshot reached from generateBracket by set and clear,   *)
(* each call of settlePassChains, the one generateBracket makes and the    *)
(* one every set makes, comes to a scan that changes nothing after fewer   *)
(* changing iterations than its cap of 4 x matchCount, and the snapshot it *)
(* returns has no decided match whose re-propagation would change it.      *)
C24_SettleStopsBeforeCap ==
  lastOp # "none" =>
    \A pre \in settleInputs :
      /\ settleChanges(pre, 0, maxIterationsOf(pre)) < maxIterationsOf(pre)
      /\ firstUnsettled(settlePassChains(pre)) = 0

\* a set after which settlePassChains has to re-propagate a decided match
C24_Witness ==
  /\ lastOp \in {"set", "clear"}
  /\ \E pre \in settleInputs : settleChanges(pre, 0, maxIterationsOf(pre)) >= 1

----------------------------------------------------------------------------
(* The direction of invalidation *)

\* match k lies on the way from the parent of match m to the final: a later
\* round, at the slot m's slot is halved to
onWayToFinal(ms, m, k) ==
  /\ ms[k].round > ms[m].round
  /\ ms[k].slot = ms[m].slot \div Pow2(ms[k].round - ms[m].round)

\* the calls a caller can make on the current snapshot: a set to an occupant
\* or a clear
Calls == Assignable \cup ((1..Len(matches)) \X {Undefined})

\* a field that held a value holds it still
stillHeld(before, after) == Truthy(before) => after = before

(* C25: a set or a clear on match m leaves, in every match that is not on  *)
(* the way from m's parent to the final (the matches of m's round and of   *)
(* the earlier rounds, m itself, and the later-round matches off that      *)
(* way), every occupant in place and every winner set, m's own winner      *)
(* excepted.                                                               *)
C25_NoBackwardInvalidation ==
  \A mw \in Calls :
    \A after \in {propagateWinner(matches, mw[1], mw[2])} :
      \A k \in 1..Len(matches) :
        ~onWayToFinal(matches, mw[1], k) =>
          /\ stillHeld(matches[k].teamAId, after[k].teamAId)
          /\ stillHeld(matches[k].teamBId, after[k].teamBId)
          /\ k # mw[1] => stillHeld(matches[k].winnerId, after[k].winnerId)

\* a decided round-1 match is given its other occupant as winner while a
\* match beside it and a later match off its way are decided: the parent
\* loses what it held and the others keep theirs
C25_Witness ==
  /\ lastOp = "set"
  /\ \E mw \in Assignable :
       \E after \in {propagateWinner(matches, mw[1], mw[2])} :
         /\ Truthy(matches[mw[1]].winnerId) /\ matches[mw[1]].winnerId # mw[2]
         /\ \E k \in 1..Len(matches) :
              /\ onWayToFinal(matches, mw[1], k)
              /\ Truthy(matches[k].winnerId) /\ after[k].winnerId = Undefined
         /\ \E k \in 1..Len(matches) :
              /\ k # mw[1] /\ matches[k].round = matches[mw[1]].round
              /\ isEntrant(matches[k].winnerId) /\ after[k].winnerId = matches[k].winnerId
         /\ \E k \in 1..Len(matches) :
              /\ matches[k].round > matches[mw[1]].round
              /\ ~onWayToFinal(matches, mw[1], k)
              /\ isEntrant(matches[k].winnerId) /\ after[k].winnerId = matches[k].winnerId

----------------------------------------------------------------------------
(* Feeders *)

\* the match of the round before that feeds side A (slot 2s) or side B
\* (slot 2s + 1) of match k, 0 when there is none
feederOf(ms, k, side) ==
  LET isFeeder(m) == /\ m.round = ms[k].round - 1
                     /\ m.slot = 2 * ms[k].slot + (IF side = "A" THEN 0 ELSE 1)
  IN  findIndex(ms, isFeeder)

(* C26: in every snapshot, each match of a round after the first has in    *)
(* teamAId the winnerId of the match at slot 2s of the round before and in *)
(* teamBId the winnerId of the match at slot 2s + 1, so that a slot is     *)
(* empty exactly when the match feeding it has no winner.                  *)
C26_FeederConsistency ==
  \A k \in 1..Len(matches) :
    matches[k].round > 1 =>
      /\ feederOf(matches, k, "A") # 0 /\ feederOf(matches, k, "B") # 0
      /\ matches[k].teamAId = matches[feederOf(matches, k, "A")].winnerId
      /\ matches[k].teamBId = matches[feederOf(matches, k, "B")].winnerId

----------------------------------------------------------------------------
(* Matches left to the automatic advancement *)

\* a real occupant: an entrant, neither empty nor the pass sentinel
isReal(id) == Truthy(id) /\ ~isPass(id)

\* match k holds exactly one real occupant, or a real occupant opposite the
\* pass sentinel, and has no winner
leftAlone(ms, k) ==
  /\ ~Truthy(ms[k].winnerId)
  /\ isReal(ms[k].teamAId) # isReal(ms[k].teamBId)

\* the empty slot of match k is fed by a match that holds an occupant
awaited(ms, k) ==
  \/ ~Truthy(ms[k].teamAId) /\ feederHasTeams(ms, ms[k], "A")
  \/ ~Truthy(ms[k].teamBId) /\ feederHasTeams(ms, ms[k], "B")

(* C27: after a set or a clear returns, no match is left with exactly one   *)
(* real occupant, or with a real occupant opposite the pass sentinel, and  *)
(* no winner.  Read in the code's favour: a match whose empty slot is fed  *)
(* by a match that still holds an occupant is waiting for its opponent and *)
(* is not counted.                                                         *)
C27_NoneLeftAlone ==
  lastOp \in {"set", "clear"} =>
    \A k \in 1..Len(matches) : leftAlone(matches, k) => awaited(matches, k)

----------------------------------------------------------------------------
(* The swaps of the local search *)

\* the priority entrants a layout puts opposite an empty slot
priorityFacingBye(seeded) ==
  {seeded[idx].id : idx \in {i \in DOMAIN seeded :
                               /\ seeded[i].priority
                               /\ At(seeded, opponentIdxOf(i, SizeOf(seeded))) = NoTeam}}

(* C28: no swap tryImprovePairs keeps puts a priority entrant opposite an   *)
(* empty slot that was not opposite one before the swap.                   *)
C28_NoNewPriorityBye ==
  lastOp = "build" =>
    \A chain \in {stagesOfTeams.chain} :
      \A k \in 1..(Len(chain) - 1) :
        priorityFacingBye(chain[k + 1]) \subseteq priorityFacingBye(chain[k])

----------------------------------------------------------------------------
(* Automatic advancement and the opponents still to come *)

\* some match of the subtree feeding side A or B of match k holds a real
\* entrant
RECURSIVE subtreeHasReal(_, _, _)
subtreeHasReal(ms, k, side) ==
  \E f \in {feederOf(ms, k, side)} :
    /\ f # 0
    /\ \/ isReal(ms[f].teamAId) \/ isReal(ms[f].teamBId)
       \/ subtreeHasReal(ms, f, "A") \/ subtreeHasReal(ms, f, "B")

\* match k holds one occupant opposite an empty slot, is decided, and an
\* entrant of the subtree feeding the empty slot can still arrive
decidedEarly(ms, k) ==
  /\ Truthy(ms[k].winnerId)
  /\ \/ Truthy(ms[k].teamAId) /\ ~Truthy(ms[k].teamBId) /\ subtreeHasReal(ms, k, "B")
     \/ Truthy(ms[k].teamBId) /\ ~Truthy(ms[k].teamAId) /\ subtreeHasReal(ms, k, "A")

(* C29: the automatic advancement decides a match that holds one occupant  *)
(* opposite an empty slot only if no match of the subtree feeding the      *)
(* empty slot holds a real entrant.  The winners set automatically are     *)
(* those of the snapshot generateBracket returns and, in a set on match m, *)
(* those that other matches without a winner have when the call returns.   *)
C29_NoEarlyAutoAdvance ==
  /\ lastOp = "build" => \A k \in 1..Len(matches) : ~decidedEarly(matches, k)
  /\ \A mw \in Assignable :
       \A after \in {propagateWinner(matches, mw[1], mw[2])} :
         \A k \in (1..Len(matches)) \ {mw[1]} :
           ~Truthy(matches[k].winnerId) => ~decidedEarly(after, k)

----------------------------------------------------------------------------
(* Progress toward the final *)

\* the matches a result can be entered for: two real occupants and no winner
openMatches(ms) ==
  {k \in 1..Len(ms) :
     isReal(ms[k].teamAId) /\ isReal(ms[k].teamBId) /\ ~Truthy(ms[k].winnerId)}

\* the final, the match that feeds no other, has a real entrant as winner
finalDecided(ms) ==
  \E k \in 1..Len(ms) :
    findNextMatch(ms, ms[k].round, ms[k].slot) = 0 /\ isReal(ms[k].winnerId)

(* C30: in every snapshot reached from generateBracket by set and clear,   *)
(* either the final has a real entrant as winner or some match has two     *)
(* real occupants and no winner, so that a result can still be entered and *)
(* the final can still be reached.                                         *)
C30_NeverStuck ==
  (lastOp # "none" /\ Len(matches) > 0) =>
    finalDecided(matches) \/ openMatches(matches) # {}
====
